---- MODULE Spec2Model ----
(***************************************************************************)
(* A model of the spaceKLIP utility layer:                                 *)
(*   - coron2pipeline.Coron2Pipeline_spaceKLIP.process, the per-product    *)
(*     loop of the stage-2 pipeline (specification SpecProc);              *)
(*   - coron2pipeline.run_obs, the stage-2 batch driver over the exposure  *)
(*     database (specification SpecRun);                                   *)
(*   - utils.read_obs / write_obs / read_red, the FITS cube helpers        *)
(*     (specification SpecIO);                                             *)
(*   - utils.lookup_pixscale behind functools.lru_cache                    *)
(*     (specifications SpecPix and SpecLru);                               *)
(*   - starphot.get_stellar_magnitudes (specification SpecMag).            *)
(* Python strings that the code slices, compares by suffix, rewrites or    *)
(* upper-cases are sequences of one-character strings, so that endswith,   *)
(* replace, split, join and upper are computed as Python computes them.    *)
(***************************************************************************)
EXTENDS Integers, Sequences, FiniteSets, TLC

VARIABLES
    obs,          \* database.obs: key -> table (sequence of rows)
    outputDir,    \* database.output_dir
    files,        \* regular files on disk (paths)
    dirs,         \* directories on disk (paths)
    phase,        \* "idle" (no run_obs call active) or "loop" (inside the loops)
    ki,           \* index of the current key in database.obs.keys()
    rj,           \* row index j of the current key (1-based)
    stepsArg,     \* the steps argument of the current call
    subdirArg,    \* the subdir argument of the current call
    pipeline,     \* the pipeline instance of the last iteration that built one
    trace,        \* what the current (or last) call did, in order
    obsAtCall,    \* database.obs as it was when the current (or last) call began
    doneBefore,   \* entries updated by calls that ended before the current one
    outcome,      \* how the last call ended: "none", "returned", "raised"
    nCalls,       \* number of run_obs calls begun
    fitsIn,       \* the FITS file handed to read_obs / read_red / write_obs
    readOut,      \* what read_obs returned (or that it raised)
    redOut,       \* what read_red returned (or that it raised)
    written,      \* the file write_obs wrote
    cache,        \* lru_cache of lookup_pixscale: most recently used first
    nLookups,     \* pair -> number of times the body of lookup_pixscale ran
    nEvicted,     \* pair -> number of times the pair was evicted from the cache
    firstValue,   \* pair -> value returned by the first call that returned
    lastCall,     \* the last lookup_pixscale call: pair, result, whether it hit
    nFill,        \* number of distinct filler pairs asked for so far
    nReq,         \* number of calls made with a named pair
    svo,          \* the filter list the filter-profile service reports
    passbands,    \* names of the local passband files of the instrument
    magOut,       \* what get_stellar_magnitudes returned
    asn,          \* the association that process loads from its input
    self,         \* the attributes of the pipeline instance that process uses
    prodIdx,      \* index of the current product in asn['products']
    all_res,      \* the list of results process has built so far
    procPhase,    \* "idle", "loop", "returned" or "raised"
    nProcess      \* number of process calls begun on the instance

runVars == <<obs, outputDir, files, dirs, phase, ki, rj, stepsArg, subdirArg,
             pipeline, trace, obsAtCall, doneBefore, outcome, nCalls>>
ioVars == <<fitsIn, readOut, redOut, written>>
pixVars == <<cache, nLookups, nEvicted, firstValue, lastCall, nFill, nReq>>
magVars == <<svo, passbands, magOut>>
procVars == <<asn, self, prodIdx, all_res, procPhase, nProcess>>
vars == <<runVars, ioVars, pixVars, magVars, procVars>>

(***************************************************************************)
(* Python string operations on character sequences.                        *)
(***************************************************************************)
CalFits == <<"c", "a", "l", ".", "f", "i", "t", "s">>
CalintsFits == <<"c", "a", "l", "i", "n", "t", "s", ".", "f", "i", "t", "s">>

\* str.endswith
EndsWith(s, suf) ==
    /\ Len(s) >= Len(suf)
    /\ SubSeq(s, Len(s) - Len(suf) + 1, Len(s)) = suf

\* str.replace(old, new): every non-overlapping occurrence, left to right
RECURSIVE Replace(_, _, _)
Replace(s, old, new) ==
    IF Len(s) < Len(old) THEN s
    ELSE IF SubSeq(s, 1, Len(old)) = old
         THEN new \o Replace(SubSeq(s, Len(old) + 1, Len(s)), old, new)
         ELSE <<Head(s)>> \o Replace(Tail(s), old, new)

\* os.path.join(a, b) on a POSIX system
PathJoin(a, b) ==
    IF b # <<>> /\ Head(b) = "/" THEN b
    ELSE IF a = <<>> \/ a[Len(a)] = "/" THEN a \o b
    ELSE a \o <<"/">> \o b

\* os.path.basename
RECURSIVE Basename(_)
Basename(p) ==
    IF p = <<>> THEN <<>>
    ELSE IF p[Len(p)] = "/" THEN <<>>
    ELSE Basename(SubSeq(p, 1, Len(p) - 1)) \o <<p[Len(p)]>>

(***************************************************************************)
(* Coron2Pipeline_spaceKLIP.process: the loop over the products of the     *)
(* association, with the explicit outlier-detection run and the output     *)
(* name of each result.                                                    *)
(***************************************************************************)
MaxProducts == 2
MaxProcess == 2

Cal == <<"c", "a", "l">>
Calints == <<"c", "a", "l", "i", "n", "t", "s">>
DotFits == <<".", "f", "i", "t", "s">>
Singleton == <<"s", "i", "n", "g", "l", "e", "t", "o", "n">>

\* the values None and False of the suffix attribute, which is otherwise a string
PyNone == <<"None">>
PyFalse == <<"False">>

\* product['name'] of the products an association may list
ProductNames == { <<"p">>, <<"q">> }
ProductLists ==
    UNION { [1..m -> ProductNames] : m \in 1..MaxProducts }

\* what LoadAsLevel2Asn.load returns: an association read from a file has a
\* filename attribute, one made up around a single exposure has none
Associations ==
    { [products |-> ps, has_filename |-> TRUE, filename |-> <<"d", "/", "a">>]
        : ps \in ProductLists }
    \cup
    { [products |-> ps, has_filename |-> FALSE, filename |-> <<>>]
        : ps \in { q \in ProductLists : Len(q) = 1 } }

\* what process_exposure_product and outlier_detection.run hand back for one
\* product: a 2D image model, or a cube model of integrations
ResultModels ==
    { [class |-> "ImageModel", ndim |-> 2], [class |-> "CubeModel", ndim |-> 3] }

\* the attributes of the instance when process is first entered; suffix is
\* None and output_use_model is False until a process call has returned
Instances ==
    { [save_results |-> sr, output_file |-> <<"u">>, output_dir |-> <<"o">>,
       output_use_model |-> FALSE, suffix |-> PyNone] : sr \in BOOLEAN }

\* a test that takes every model for a cube
IsAnyModel(res) == res.class \in {"ImageModel", "CubeModel"}

\* isinstance(res, datamodels.CubeModel)
IsCubeModel(res) == res.class = "CubeModel"

\* suffix = 'cal'; if isinstance(res, datamodels.CubeModel): suffix = 'calints'
SuffixOf(res) == IF IsCubeModel(res) THEN Calints ELSE Cal

\* self.make_output_path(suffix=suffix): the base name of output_file, the
\* suffix that was passed (the instance's own suffix when none was passed, no
\* suffix at all when that is False), the extension, under output_dir
MakeOutputPath(p, suffix) ==
    LET used == IF suffix = PyNone THEN p.suffix ELSE suffix
        base == IF used \in {PyNone, PyFalse} THEN Basename(p.output_file)
                ELSE Basename(p.output_file) \o <<"_">> \o used
    IN PathJoin(p.output_dir, base \o DotFits)

\* asn.filename, set to 'singleton' when the association has none
AsnFilename(a) == IF a.has_filename THEN a.filename ELSE Singleton

\* process(input) is entered: the association is loaded, all_res = []
ProcessCall ==
    /\ procPhase # "loop"
    /\ nProcess < MaxProcess
    /\ asn' \in Associations
    /\ prodIdx' = 1
    /\ all_res' = <<>>
    /\ procPhase' = "loop"
    /\ nProcess' = nProcess + 1
    /\ UNCHANGED self
    /\ UNCHANGED <<runVars, ioVars, pixVars, magVars>>

\* one iteration of the loop over asn['products']
ProcessProduct ==
    /\ procPhase = "loop"
    /\ prodIdx <= Len(asn.products)
    /\ \E model \in ResultModels :
          LET product == asn.products[prodIdx]
              p == IF self.save_results
                   THEN [self EXCEPT !.output_file = product]
                   ELSE self
              filebase == Basename(AsnFilename(asn))
              res == model
              suffix == SuffixOf(res)
          IN /\ self' = p
             /\ asn' = [asn EXCEPT !.has_filename = TRUE,
                                   !.filename = AsnFilename(asn)]
             /\ all_res' = Append(all_res,
                                  [class |-> res.class, ndim |-> res.ndim,
                                   product |-> product, filebase |-> filebase,
                                   suffix |-> suffix,
                                   filename |-> MakeOutputPath(p, suffix)])
    /\ prodIdx' = prodIdx + 1
    /\ UNCHANGED <<procPhase, nProcess>>
    /\ UNCHANGED <<runVars, ioVars, pixVars, magVars>>

\* process_exposure_product or outlier_detection.run raises: nothing in
\* process catches it, the attributes set so far stay set
ProcessProductError ==
    /\ procPhase = "loop"
    /\ prodIdx <= Len(asn.products)
    /\ self' = IF self.save_results
               THEN [self EXCEPT !.output_file = asn.products[prodIdx]]
               ELSE self
    /\ asn' = [asn EXCEPT !.has_filename = TRUE, !.filename = AsnFilename(asn)]
    /\ procPhase' = "raised"
    /\ UNCHANGED <<prodIdx, all_res, nProcess>>
    /\ UNCHANGED <<runVars, ioVars, pixVars, magVars>>

\* the loop is exhausted: output_use_model = True, suffix = False, return
ProcessReturn ==
    /\ procPhase = "loop"
    /\ prodIdx > Len(asn.products)
    /\ self' = [self EXCEPT !.output_use_model = TRUE, !.suffix = PyFalse]
    /\ procPhase' = "returned"
    /\ UNCHANGED <<asn, prodIdx, all_res, nProcess>>
    /\ UNCHANGED <<runVars, ioVars, pixVars, magVars>>

ProcInit ==
    /\ asn = [products |-> <<>>, has_filename |-> FALSE, filename |-> <<>>]
    /\ self \in Instances
    /\ prodIdx = 1
    /\ all_res = <<>>
    /\ procPhase = "idle"
    /\ nProcess = 0

ProcIdle ==
    /\ asn = [products |-> <<>>, has_filename |-> FALSE, filename |-> <<>>]
    /\ self = [save_results |-> TRUE, output_file |-> <<"u">>,
               output_dir |-> <<"o">>, output_use_model |-> FALSE,
               suffix |-> PyNone]
    /\ prodIdx = 1
    /\ all_res = <<>>
    /\ procPhase = "idle"
    /\ nProcess = MaxProcess

ProcNext ==
    \/ ProcessCall
    \/ ProcessProduct
    \/ ProcessProductError
    \/ ProcessReturn

(***************************************************************************)
(* The exposure database and the stage-2 batch driver run_obs.             *)
(***************************************************************************)
MaxCalls == 2

\* database.obs.keys(), in the order the dictionary iterates them
KeyOrder == <<"K1", "K2">>

StageLabels == {"STAGE0", "STAGE1", "STAGE2"}

Row(stem, label, type) ==
    [FITSFILE |-> <<"i", "/", stem>>, DATAMODL |-> label, TYPE |-> type]

InitialDatabases ==
    { [K1 |-> <<Row("a", l1, "SCI"), Row("b", l2, "REF")>>,
       K2 |-> <<Row("c", l3, "SCI")>>] : l1 \in StageLabels, l2 \in StageLabels,
                                          l3 \in StageLabels }

\* database.output_dir, and the subdir argument ('stage2' by default)
OutputDirs == { <<"o">>, <<"r", "_">> \o CalFits }
Subdirs == { <<"s", "t", "a", "g", "e", "2">> }

\* every (key, j) of the table, in the iteration order of the two loops
Entries == { <<KeyOrder[i], j>> : i \in 1..Len(KeyOrder), j \in 1..2 }
ValidEntries(db) == { e \in Entries : e[2] <= Len(db[e[1]]) }
KeyIndex(k) == CHOOSE i \in 1..Len(KeyOrder) : KeyOrder[i] = k
Before(e, f) ==
    \/ KeyIndex(e[1]) < KeyIndex(f[1])
    \/ KeyIndex(e[1]) = KeyIndex(f[1]) /\ e[2] < f[2]

\* The steps of the pipeline instance: those of Image2Pipeline and the
\* outlier_detection step that __init__ registers.
PipelineSteps ==
    {"bkg_subtract", "assign_wcs", "flat_field", "photom", "resample",
     "outlier_detection"}

\* Coron2Pipeline_spaceKLIP(output_dir=output_dir); pipeline.save_results = True
NewPipeline(output_dir) ==
    [output_dir |-> output_dir, save_results |-> TRUE,
     params |-> { <<"outlier_detection", "skip", FALSE>> }]

\* a setter that leaves the attribute as it was
KeepParam(params, key1, key2, value) == params

\* setattr(getattr(pipeline, key1), key2, value): the attribute is overwritten
SetParam(params, key1, key2, value) ==
    { t \in params : ~(t[1] = key1 /\ t[2] = key2) } \cup { <<key1, key2, value>> }

\* The two nested loops over steps: steps is the dictionary in iteration order,
\* a sequence of <<key1, <<key2, value>>, ...>>. getattr raises on a name the
\* pipeline does not have; what was set before stays set.
RECURSIVE ApplyInner(_, _, _)
ApplyInner(params, key1, inner) ==
    IF inner = <<>> THEN params
    ELSE ApplyInner(SetParam(params, key1, Head(inner)[1], Head(inner)[2]),
                    key1, Tail(inner))

RECURSIVE ApplySteps(_, _)
ApplySteps(p, steps) ==
    IF steps = <<>> THEN [pipeline |-> p, raised |-> FALSE]
    ELSE LET key1 == Head(steps)[1]
             inner == Head(steps)[2]
         IN IF inner = <<>> THEN ApplySteps(p, Tail(steps))
            ELSE IF key1 \notin PipelineSteps
                 THEN [pipeline |-> p, raised |-> TRUE]
                 ELSE ApplySteps([p EXCEPT !.params =
                                      ApplyInner(p.params, key1, inner)],
                                 Tail(steps))

StepsChoices ==
    { <<>>,
      << <<"outlier_detection", << <<"skip", TRUE>> >> >> >>,
      << <<"resample", << <<"skip", TRUE>> >> >>,
         <<"bogus", << <<"skip", TRUE>> >> >> >>,
      << <<"bogus", <<>> >>,
         <<"outlier_detection", << <<"skip", TRUE>> >> >> >> }

\* skip tests that let other rows through
IsNotStage2(row) == row.DATAMODL # "STAGE2"
IsStage1OrStage2(row) == row.DATAMODL \in {"STAGE1", "STAGE2"}

\* The skip test of the inner loop
IsStage1(row) == row.DATAMODL = "STAGE1"

\* fitsfile as computed after pipeline.run returned res
TrackedPath(output_dir, filename, onDisk) ==
    LET fitsfile == PathJoin(output_dir, filename)
    IN IF EndsWith(fitsfile, CalFits)
          /\ Replace(fitsfile, CalFits, CalintsFits) \in onDisk
       THEN Replace(fitsfile, CalFits, CalintsFits)
       ELSE fitsfile

\* database.update_obs(key, j, fitsfile): the row now points at the output
\* file and carries the stage label of a stage-2 product.
UpdateObs(db, key, j, fitsfile) ==
    [db EXCEPT ![key][j].FITSFILE = fitsfile, ![key][j].DATAMODL = "STAGE2"]

Event(ev, key, j, path) == [ev |-> ev, key |-> key, j |-> j, path |-> path]

\* the entries for which the trace holds an event of kind ev
EntriesOf(tr, ev) ==
    { <<tr[n].key, tr[n].j>> : n \in { m \in 1..Len(tr) : tr[m].ev = ev } }

CurKey == KeyOrder[ki]
CurRow == obs[CurKey][rj]
RunOutputDir == PathJoin(outputDir, subdirArg)
InLoop == phase = "loop" /\ ki <= Len(KeyOrder)

\* a loop that leaves the group after its first handled file
AdvanceToNextKey ==
    /\ rj' = 1
    /\ ki' = ki + 1

\* the next (i, j) of the nested loops
Advance ==
    IF rj < Len(obs[CurKey])
    THEN /\ rj' = rj + 1
         /\ ki' = ki
    ELSE /\ rj' = 1
         /\ ki' = ki + 1

\* what the framework may leave behind and report for one exposure: the
\* 'cal' file, the 'calints' file or both are written into the output
\* directory, and res.meta.filename names one of the two forms.
ResultNames(row) ==
    { Basename(row.FITSFILE) \o <<"_">> \o CalFits,
      Basename(row.FITSFILE) \o <<"_">> \o CalintsFits }
ResultWrites(row) == (SUBSET ResultNames(row)) \ {{}}

\* run_obs is called: the output directory is made, the loops begin
RunObsCall ==
    /\ phase = "idle"
    /\ nCalls < MaxCalls
    /\ \E st \in StepsChoices, sd \in Subdirs :
          /\ stepsArg' = st
          /\ subdirArg' = sd
          /\ dirs' = dirs \cup {PathJoin(outputDir, sd)}
    /\ phase' = "loop"
    /\ ki' = 1
    /\ rj' = 1
    /\ trace' = <<>>
    /\ obsAtCall' = obs
    /\ doneBefore' = doneBefore \cup EntriesOf(trace, "update")
    /\ outcome' = "none"
    /\ nCalls' = nCalls + 1
    /\ UNCHANGED <<obs, outputDir, files, pipeline>>
    /\ UNCHANGED <<ioVars, pixVars, magVars, procVars>>

\* one iteration on a row that is not labelled STAGE1: continue
IterSkip ==
    /\ InLoop
    /\ ~IsStage1(CurRow)
    /\ Advance
    /\ UNCHANGED <<obs, outputDir, files, dirs, phase, stepsArg, subdirArg,
                   pipeline, trace, obsAtCall, doneBefore, outcome, nCalls>>
    /\ UNCHANGED <<ioVars, pixVars, magVars, procVars>>

\* one iteration on a STAGE1 row whose step parameters cannot be set: the
\* AttributeError of getattr leaves run_obs
IterStepError ==
    /\ InLoop
    /\ IsStage1(CurRow)
    /\ LET ap == ApplySteps(NewPipeline(RunOutputDir), stepsArg)
       IN /\ ap.raised
          /\ pipeline' = ap.pipeline
    /\ trace' = trace \o << Event("new", CurKey, rj, <<>>),
                            Event("raise", CurKey, rj, <<>>) >>
    /\ phase' = "idle"
    /\ outcome' = "raised"
    /\ UNCHANGED <<obs, outputDir, files, dirs, ki, rj, stepsArg, subdirArg,
                   obsAtCall, doneBefore, nCalls>>
    /\ UNCHANGED <<ioVars, pixVars, magVars, procVars>>

\* a driver that records the expected output before the pipeline has run
IterRunErrorUpdatesFirst ==
    /\ InLoop
    /\ obs[KeyOrder[ki]][rj].DATAMODL = "STAGE1"
    /\ pipeline' = NewPipeline(PathJoin(outputDir, subdirArg))
    /\ obs' = [obs EXCEPT ![KeyOrder[ki]][rj].FITSFILE =
                  PathJoin(PathJoin(outputDir, subdirArg), Basename(@))]
    /\ trace' = trace \o
           << [ev |-> "new", key |-> KeyOrder[ki], j |-> rj, path |-> <<>>],
              [ev |-> "run", key |-> KeyOrder[ki], j |-> rj,
               path |-> obs[KeyOrder[ki]][rj].FITSFILE],
              [ev |-> "raise", key |-> KeyOrder[ki], j |-> rj, path |-> <<>>] >>
    /\ phase' = "idle"
    /\ outcome' = "raised"
    /\ UNCHANGED <<outputDir, files, dirs, ki, rj, stepsArg, subdirArg,
                   obsAtCall, doneBefore, nCalls>>
    /\ UNCHANGED <<ioVars, pixVars, magVars, procVars>>

\* one iteration on a STAGE1 row whose pipeline.run raises: nothing catches it
IterRunError ==
    /\ InLoop
    /\ IsStage1(CurRow)
    /\ LET ap == ApplySteps(NewPipeline(RunOutputDir), stepsArg)
       IN /\ ~ap.raised
          /\ pipeline' = ap.pipeline
    /\ trace' = trace \o << Event("new", CurKey, rj, <<>>),
                            Event("run", CurKey, rj, CurRow.FITSFILE),
                            Event("raise", CurKey, rj, <<>>) >>
    /\ phase' = "idle"
    /\ outcome' = "raised"
    /\ UNCHANGED <<obs, outputDir, files, dirs, ki, rj, stepsArg, subdirArg,
                   obsAtCall, doneBefore, nCalls>>
    /\ UNCHANGED <<ioVars, pixVars, magVars, procVars>>

\* one iteration on a STAGE1 row that the pipeline processes: the result's
\* filename is resolved against the output directory and the disk, and the
\* database row is updated
IterProcess ==
    /\ InLoop
    /\ IsStage1(CurRow)
    /\ LET ap == ApplySteps(NewPipeline(RunOutputDir), stepsArg)
       IN /\ ~ap.raised
          /\ pipeline' = ap.pipeline
    /\ \E name \in ResultNames(CurRow), ws \in ResultWrites(CurRow) :
          LET res == << [filename |-> name] >>
              onDisk == files \cup { PathJoin(RunOutputDir, w) : w \in ws }
              fitsfile == TrackedPath(RunOutputDir, Head(res).filename, onDisk)
          IN /\ files' = onDisk
             /\ obs' = UpdateObs(obs, CurKey, rj, fitsfile)
             /\ trace' = trace \o
                    << Event("new", CurKey, rj, <<>>),
                       Event("run", CurKey, rj, CurRow.FITSFILE),
                       Event("result", CurKey, rj, PathJoin(RunOutputDir, name)),
                       Event("update", CurKey, rj, fitsfile) >>
    /\ Advance
    /\ UNCHANGED <<outputDir, dirs, phase, stepsArg, subdirArg, obsAtCall,
                   doneBefore, outcome, nCalls>>
    /\ UNCHANGED <<ioVars, pixVars, magVars, procVars>>

\* the loops are exhausted: run_obs returns None
RunObsReturn ==
    /\ phase = "loop"
    /\ ki > Len(KeyOrder)
    /\ phase' = "idle"
    /\ outcome' = "returned"
    /\ UNCHANGED <<obs, outputDir, files, dirs, ki, rj, stepsArg, subdirArg,
                   pipeline, trace, obsAtCall, doneBefore, nCalls>>
    /\ UNCHANGED <<ioVars, pixVars, magVars, procVars>>

RunInit ==
    /\ obs \in InitialDatabases
    /\ outputDir \in OutputDirs
    /\ files = {}
    /\ dirs = {}
    /\ phase = "idle"
    /\ ki = 1
    /\ rj = 1
    /\ stepsArg = <<>>
    /\ subdirArg = <<>>
    /\ pipeline = NewPipeline(<<>>)
    /\ trace = <<>>
    /\ obsAtCall = obs
    /\ doneBefore = {}
    /\ outcome = "none"
    /\ nCalls = 0

\* the subsystems a specification does not exercise stay as constructed
RunIdle ==
    /\ obs = [K1 |-> <<>>, K2 |-> <<>>]
    /\ outputDir = <<"o">>
    /\ files = {}
    /\ dirs = {}
    /\ phase = "idle"
    /\ ki = 1
    /\ rj = 1
    /\ stepsArg = <<>>
    /\ subdirArg = <<>>
    /\ pipeline = NewPipeline(<<>>)
    /\ trace = <<>>
    /\ obsAtCall = obs
    /\ doneBefore = {}
    /\ outcome = "none"
    /\ nCalls = MaxCalls

IoIdle ==
    /\ fitsIn = [kind |-> "none"]
    /\ readOut = [status |-> "none"]
    /\ redOut = [status |-> "none"]
    /\ written = [status |-> "none"]

PixIdle ==
    /\ cache = <<>>
    /\ nLookups = <<>>
    /\ nEvicted = <<>>
    /\ firstValue = <<>>
    /\ lastCall = [status |-> "none"]
    /\ nFill = 0
    /\ nReq = 0

MagIdle ==
    /\ svo = <<>>
    /\ passbands = {}
    /\ magOut = [status |-> "none"]

RunNext ==
    \/ RunObsCall
    \/ IterSkip
    \/ IterStepError
    \/ IterRunError
    \/ IterProcess
    \/ RunObsReturn

SpecRunInit == RunInit /\ IoIdle /\ PixIdle /\ MagIdle /\ ProcIdle
SpecRun == SpecRunInit /\ [][RunNext]_vars

(***************************************************************************)
(* Properties of run_obs.                                                  *)
(***************************************************************************)
RowOf(db, e) == db[e[1]][e[2]]
Stage1AtCall ==
    { e \in ValidEntries(obsAtCall) : RowOf(obsAtCall, e).DATAMODL = "STAGE1" }
LastEvent == trace[Len(trace)]
\* the path of the event of kind ev that the trace holds for entry e
PathOf(ev, e) ==
    trace[CHOOSE n \in 1..Len(trace) :
              trace[n].ev = ev /\ trace[n].key = e[1] /\ trace[n].j = e[2]].path

\* C1: during and after a run_obs call, an entry that was not labelled STAGE1
\* when the call began has had no pipeline built or run for it, has had no
\* update_obs call, and its row (path and every other field) is as it was.
C1_NonStage1Untouched ==
    \A e \in ValidEntries(obsAtCall) \ Stage1AtCall :
        /\ RowOf(obs, e) = RowOf(obsAtCall, e)
        /\ e \notin EntriesOf(trace, "new")
        /\ e \notin EntriesOf(trace, "run")
        /\ e \notin EntriesOf(trace, "update")

\* a call returned after updating an entry and passing over a later entry
\* that was not STAGE1
C1_Witness ==
    /\ outcome = "returned"
    /\ \E e \in EntriesOf(trace, "update"),
          f \in ValidEntries(obsAtCall) \ Stage1AtCall : Before(e, f)

\* the co-located 'calints.fits' form of a path of the 'cal.fits' form
CalintsSibling(p) == SubSeq(p, 1, Len(p) - Len(CalFits)) \o CalintsFits

\* C2: the path handed to update_obs is the output-directory path of the
\* result's filename, except that a path of the 'cal.fits' form whose
\* co-located 'calints.fits' file exists on disk is tracked in the
\* 'calints.fits' form.
C2_TrackedPathIsSibling ==
    (trace # <<>> /\ LastEvent.ev = "update") =>
        LET p == trace[Len(trace) - 1].path
        IN LastEvent.path =
              IF EndsWith(p, CalFits) /\ CalintsSibling(p) \in files
              THEN CalintsSibling(p)
              ELSE p

\* the same statement for output directories whose name does not hold
\* 'cal.fits'
C2_SuffixOnly ==
    Replace(RunOutputDir, CalFits, <<>>) = RunOutputDir => C2_TrackedPathIsSibling

\* C3: when pipeline.run raised, the call has ended with the exception; every
\* entry that was STAGE1 and comes before the failing one has been updated
\* with its output path; the failing entry and every entry after it have
\* their rows as before the call, no update, and (after it) no pipeline run.
C3_AbortLeavesRest ==
    (phase = "idle" /\ outcome = "raised" /\ trace[Len(trace) - 1].ev = "run") =>
        LET f == <<LastEvent.key, LastEvent.j>>
        IN \A e \in ValidEntries(obsAtCall) :
              IF Before(e, f) /\ e \in Stage1AtCall
              THEN /\ e \in EntriesOf(trace, "update")
                   /\ RowOf(obs, e).FITSFILE = PathOf("update", e)
                   /\ RowOf(obs, e).FITSFILE # RowOf(obsAtCall, e).FITSFILE
              ELSE /\ RowOf(obs, e) = RowOf(obsAtCall, e)
                   /\ e \notin EntriesOf(trace, "update")
                   /\ (e # f => e \notin EntriesOf(trace, "run"))

\* pipeline.run raised on the second of three STAGE1 entries
C3_Witness ==
    /\ phase = "idle"
    /\ outcome = "raised"
    /\ trace[Len(trace) - 1].ev = "run"
    /\ EntriesOf(trace, "update") # {}
    /\ \E e \in Stage1AtCall : Before(<<LastEvent.key, LastEvent.j>>, e)

\* C4: a call runs the pipeline only on entries that were labelled STAGE1
\* when it began, never on an entry that an earlier call updated; and a call
\* that returns has run it on every entry that was STAGE1 when it began.
C4_RerunOnlyRemaining ==
    /\ \A e \in EntriesOf(trace, "run") :
          /\ e \notin doneBefore
          /\ e \in Stage1AtCall
    /\ doneBefore \cap Stage1AtCall = {}
    /\ outcome = "returned" => EntriesOf(trace, "run") = Stage1AtCall

\* a second call returned after processing what the first, aborted call left
C4_Witness ==
    /\ nCalls = 2
    /\ outcome = "returned"
    /\ doneBefore # {}
    /\ EntriesOf(trace, "run") # {}

\* every (step name, parameter name, value) of a steps map
StepsParams(steps) ==
    UNION { { <<steps[i][1], steps[i][2][k][1], steps[i][2][k][2]>>
                : k \in 1..Len(steps[i][2]) } : i \in 1..Len(steps) }

\* steps names something the pipeline has no attribute for
UnknownStep ==
    \E i \in 1..Len(stepsArg) : stepsArg[i][1] \notin PipelineSteps
\* ... and gives it at least one parameter
UnknownStepWithParams ==
    \E i \in 1..Len(stepsArg) :
        stepsArg[i][1] \notin PipelineSteps /\ stepsArg[i][2] # <<>>

\* the iteration the trace ends with got as far as running its pipeline
LastIterationRan ==
    \E n \in 1..Len(trace) :
        /\ trace[n].ev = "run"
        /\ \A m \in (n + 1)..Len(trace) : trace[m].ev # "new"

\* a pipeline is built for STAGE1 entries only, once per entry, right before
\* its run; the instance that was run carries every value of the steps map
\* and, besides, nothing but what the constructor set
FreshPipelineConfigured ==
    /\ \A n \in 1..Len(trace) :
          trace[n].ev = "new" =>
              /\ <<trace[n].key, trace[n].j>> \in Stage1AtCall
              /\ \A m \in 1..Len(trace) :
                    (trace[m].ev = "new" /\ trace[m].key = trace[n].key
                     /\ trace[m].j = trace[n].j) => m = n
    /\ \A n \in 1..Len(trace) :
          trace[n].ev = "run" =>
              /\ n > 1
              /\ trace[n - 1].ev = "new"
              /\ trace[n - 1].key = trace[n].key
              /\ trace[n - 1].j = trace[n].j
    /\ LastIterationRan =>
          /\ StepsParams(stepsArg) \subseteq pipeline.params
          /\ pipeline.params \ StepsParams(stepsArg)
                \subseteq { <<"outlier_detection", "skip", FALSE>> }
          /\ pipeline.output_dir = PathJoin(outputDir, subdirArg)
          /\ pipeline.save_results

\* the call ended with the error of the first STAGE1 entry it reached: no
\* pipeline was run, no entry was updated, the table is as it was
RaisedBeforeRun ==
    /\ EntriesOf(trace, "run") = {}
    /\ EntriesOf(trace, "update") = {}
    /\ obs = obsAtCall
    /\ trace # <<>> =>
          /\ Len(trace) = 2
          /\ trace[1].ev = "new"
          /\ trace[2].ev = "raise"
          /\ phase = "idle"
          /\ outcome = "raised"

\* C12, as stated: a fresh pipeline is built for every STAGE1 exposure and
\* carries every value of the steps map before it is run; whenever the steps
\* map holds an unknown step name, the first STAGE1 exposure raises before any
\* pipeline run and before any update of the database; run_obs leaves the
\* steps map as it got it.
C12_UnknownStepRaises ==
    [][ /\ FreshPipelineConfigured'
        /\ (UnknownStep => RaisedBeforeRun)'
        /\ phase = "loop" => stepsArg' = stepsArg ]_vars

\* C12, amended: as above, but the error is raised only for an unknown step
\* name that has at least one parameter; an unknown step name with an empty
\* parameter map is passed over and the pipeline is run.
C12_UnknownStepWithParamsRaises ==
    [][ /\ FreshPipelineConfigured'
        /\ (UnknownStepWithParams => RaisedBeforeRun)'
        /\ phase = "loop" => stepsArg' = stepsArg ]_vars

\* the steps map names an unknown step without parameters and a known step
\* with one: an entry was processed by a pipeline carrying that parameter,
\* and the database was updated
C12_Witness ==
    /\ UnknownStep
    /\ ~UnknownStepWithParams
    /\ LastIterationRan
    /\ <<"outlier_detection", "skip", TRUE>> \in pipeline.params
    /\ <<"outlier_detection", "skip", FALSE>> \notin pipeline.params
    /\ EntriesOf(trace, "update") # {}
    /\ outcome = "returned"

\* the steps map names an unknown step with a parameter: the first STAGE1
\* entry of the second call raised before its pipeline was run
C12_WitnessRaise ==
    /\ UnknownStepWithParams
    /\ nCalls = 2
    /\ Len(trace) = 2
    /\ trace[2].ev = "raise"
    /\ outcome = "raised"
    /\ doneBefore # {}

\* the entry that the n-th event of the trace is about
EntryAt(n) == <<trace[n].key, trace[n].j>>

\* C13: when a run_obs call has returned, its trace is one block of four
\* events (pipeline built, pipeline run on the entry's input file, result
\* returned, update_obs called) per entry that was labelled STAGE1 at the
\* start, the blocks follow one another in key order and, within a key, in
\* row order, so each update comes after its own run and before the next
\* run; the number of update_obs calls is the number of those entries.
C13_OneAtATimeInOrder ==
    outcome = "returned" =>
        LET N == Cardinality(Stage1AtCall)
            updates == { n \in 1..Len(trace) : trace[n].ev = "update" }
        IN /\ Len(trace) = 4 * N
           /\ Cardinality(updates) = N
           /\ { EntryAt(n) : n \in updates } = Stage1AtCall
           /\ \A g \in 0..(N - 1) :
                 /\ trace[4 * g + 1].ev = "new"
                 /\ trace[4 * g + 2].ev = "run"
                 /\ trace[4 * g + 3].ev = "result"
                 /\ trace[4 * g + 4].ev = "update"
                 /\ \A d \in 2..4 : EntryAt(4 * g + d) = EntryAt(4 * g + 1)
                 /\ trace[4 * g + 2].path =
                        RowOf(obsAtCall, EntryAt(4 * g + 1)).FITSFILE
                 /\ RowOf(obs, EntryAt(4 * g + 1)).FITSFILE =
                        trace[4 * g + 4].path
           /\ \A g, h \in 0..(N - 1) :
                 g < h => Before(EntryAt(4 * g + 1), EntryAt(4 * h + 1))

\* a call has returned after handling all three entries, two of one group
\* and one of the next, each labelled STAGE1 at the start
C13_Witness ==
    /\ outcome = "returned"
    /\ Cardinality(Stage1AtCall) = 3
    /\ Len(trace) = 12
    /\ EntryAt(4) = <<"K1", 1>>
    /\ EntryAt(8) = <<"K1", 2>>
    /\ EntryAt(12) = <<"K2", 1>>
    /\ trace[12].ev = "update"

(***************************************************************************)
(* FITS cube helpers: read_obs, write_obs, read_red.  An array is a numpy  *)
(* array: its shape and its values in C order.                             *)
(***************************************************************************)
MaxRank == 4
MaxDim == 2

RECURSIVE Prod(_)
Prod(shape) == IF shape = <<>> THEN 1 ELSE Head(shape) * Prod(Tail(shape))

Ndim(a) == Len(a.shape)

\* a[..., np.newaxis]: the new axis is put last
NewAxisLast(a) == [shape |-> a.shape \o <<1>>, flat |-> a.flat]

\* a[np.newaxis, :]
NewAxis(a) == [shape |-> <<1>> \o a.shape, flat |-> a.flat]

\* indexing that drops nothing
Index0Keep(a) == a

\* a[0]
Index0(a) ==
    [shape |-> Tail(a.shape), flat |-> SubSeq(a.flat, 1, Prod(Tail(a.shape)))]

\* a rank test that lets higher ranks through
RankBelow3(a) == Ndim(a) < 3

\* data.ndim != 3, the test before the UserWarning
RankNot3(a) == Ndim(a) # 3

DimError == "UserWarning: Requires 2D/3D data cube"
NoDataError == "UserWarning: Could not find any data"
None == [none |-> TRUE]

Shapes == UNION { [1..r -> 1..MaxDim] : r \in 1..MaxRank }
Array(shape, seed) ==
    [shape |-> shape, flat |-> [i \in 1..Prod(shape) |-> (i + seed) % 3]]

\* the extensions a file may hold by name
ObsHdus(shape, seed) ==
    [SCI |-> Array(shape, seed), ERR |-> Array(shape, seed + 1),
     DQ |-> Array(shape, seed + 2)]
SciOnly(shape, seed) == [SCI |-> Array(shape, seed)]
NoHdus == [x \in {} |-> None]

FitsFile(path, prim, ext) ==
    [path |-> path, prim |-> prim, ext |-> ext,
     head_pri |-> [header |-> "primary", of |-> path],
     head_sci |-> [header |-> "SCI", of |-> path]]

InputFiles ==
    { FitsFile(<<"d", "/", "o">>, None, ObsHdus(sh, sd)) : sh \in Shapes, sd \in 0..1 }
    \cup { FitsFile(<<"d", "/", "s">>, None, SciOnly(sh, sd)) : sh \in Shapes, sd \in 0..1 }
    \cup { FitsFile(<<"d", "/", "r">>, Array(sh, sd), NoHdus) : sh \in Shapes, sd \in 0..1 }
    \cup { FitsFile(<<"d", "/", "e">>, None, NoHdus) }

\* read_obs(fitsfile)
ReadObsResult(f) ==
    IF ~({"SCI", "ERR", "DQ"} \subseteq DOMAIN f.ext)
    THEN [status |-> "KeyError"]
    ELSE LET is2d == Ndim(f.ext.SCI) = 2
             data == IF is2d THEN NewAxis(f.ext.SCI) ELSE f.ext.SCI
             erro == IF is2d THEN NewAxis(f.ext.ERR) ELSE f.ext.ERR
             pxdq == IF is2d THEN NewAxis(f.ext.DQ) ELSE f.ext.DQ
         IN IF RankNot3(data)
            THEN [status |-> DimError]
            ELSE [status |-> "ok", data |-> data, erro |-> erro, pxdq |-> pxdq,
                  head_pri |-> f.head_pri, head_sci |-> f.head_sci,
                  is2d |-> is2d]

\* read_red(fitsfile)
ReadRedResult(f) ==
    IF f.prim = None /\ "SCI" \notin DOMAIN f.ext
    THEN [status |-> NoDataError]
    ELSE LET data0 == IF f.prim = None THEN f.ext.SCI ELSE f.prim
             head_sci == IF "SCI" \in DOMAIN f.ext THEN f.head_sci ELSE None
             is2d == Ndim(data0) = 2
             data == IF is2d THEN NewAxis(data0) ELSE data0
         IN IF RankNot3(data)
            THEN [status |-> DimError]
            ELSE [status |-> "ok", data |-> data, head_pri |-> f.head_pri,
                  head_sci |-> head_sci, is2d |-> is2d]

\* write_obs(fitsfile, output_dir, data, erro, pxdq, head_pri, head_sci, is2d)
WriteObsResult(f, output_dir, data, erro, pxdq, head_pri, head_sci, is2d) ==
    IF ~({"SCI", "ERR", "DQ"} \subseteq DOMAIN f.ext)
    THEN [status |-> "KeyError"]
    ELSE [status |-> "ok",
          path |-> PathJoin(output_dir, Basename(f.path)),
          prim |-> f.prim,
          ext |-> [SCI |-> IF is2d THEN Index0(data) ELSE data,
                   ERR |-> IF is2d THEN Index0(erro) ELSE erro,
                   DQ |-> IF is2d THEN Index0(pxdq) ELSE pxdq],
          head_pri |-> head_pri,
          head_sci |-> head_sci,
          is2d |-> is2d]

ReadObs ==
    /\ readOut.status = "none"
    /\ readOut' = ReadObsResult(fitsIn)
    /\ UNCHANGED <<fitsIn, redOut, written>>
    /\ UNCHANGED <<runVars, pixVars, magVars, procVars>>

ReadRed ==
    /\ redOut.status = "none"
    /\ redOut' = ReadRedResult(fitsIn)
    /\ UNCHANGED <<fitsIn, readOut, written>>
    /\ UNCHANGED <<runVars, pixVars, magVars, procVars>>

\* write_obs on what read_obs returned; the caller chooses the is2d argument
WriteObs ==
    /\ readOut.status = "ok"
    /\ written.status = "none"
    /\ \E is2d \in BOOLEAN :
          written' = WriteObsResult(fitsIn, <<"o", "u", "t">>, readOut.data, readOut.erro,
                                    readOut.pxdq, readOut.head_pri,
                                    readOut.head_sci, is2d)
    /\ UNCHANGED <<fitsIn, readOut, redOut>>
    /\ UNCHANGED <<runVars, pixVars, magVars, procVars>>

IoInit ==
    /\ fitsIn \in InputFiles
    /\ readOut = [status |-> "none"]
    /\ redOut = [status |-> "none"]
    /\ written = [status |-> "none"]

IoNext ==
    \/ ReadObs
    \/ ReadRed
    \/ WriteObs

SpecIOInit == IoInit /\ RunIdle /\ PixIdle /\ MagIdle /\ ProcIdle
SpecIO == SpecIOInit /\ [][IoNext]_vars

\* C5: read_obs on SCI, ERR and DQ arrays of shape (H, W) returns three cubes
\* of shape (1, H, W) and is2d = True; on 3D arrays it returns the arrays
\* with their shape unchanged and is2d = False.
C5_ReadObsRank ==
    readOut.status = "ok" =>
        LET sci == fitsIn.ext.SCI
            cubes == {readOut.data, readOut.erro, readOut.pxdq}
        IN /\ Ndim(sci) = 2 =>
                 /\ \A c \in cubes : c.shape = <<1, sci.shape[1], sci.shape[2]>>
                 /\ readOut.is2d = TRUE
           /\ Ndim(sci) = 3 =>
                 /\ \A c \in cubes : c.shape = sci.shape
                 /\ readOut.is2d = FALSE

\* read_obs returned for a 2D file with H = 1 and W = 2
C5_Witness ==
    /\ readOut.status = "ok"
    /\ fitsIn.ext.SCI.shape = <<1, 2>>
    /\ readOut.is2d

\* C6: for a 2D file, write_obs called with what read_obs returned and the
\* returned is2d flag writes SCI, ERR and DQ arrays with the original shape
\* (H, W) and the original values.
C6_RoundTrip2D ==
    (written.status = "ok" /\ Ndim(fitsIn.ext.SCI) = 2
       /\ written.is2d = readOut.is2d) =>
        /\ written.ext = fitsIn.ext
        /\ Ndim(written.ext.SCI) = 2

\* a 2D file of shape (2, 1) was read and written back with the returned flag
C6_Witness ==
    /\ written.status = "ok"
    /\ fitsIn.ext.SCI.shape = <<2, 1>>
    /\ written.is2d = readOut.is2d
    /\ Ndim(readOut.data) = 3

\* the data array a reader looks at, when the file has one
ObsData == IF "SCI" \in DOMAIN fitsIn.ext THEN fitsIn.ext.SCI ELSE None
RedData ==
    IF fitsIn.prim # None THEN fitsIn.prim
    ELSE IF "SCI" \in DOMAIN fitsIn.ext THEN fitsIn.ext.SCI ELSE None

\* C7: read_obs and read_red return normally exactly when the rank of the
\* data array is 2 or 3; for any other rank they fail with 'Requires 2D/3D
\* data cube' and return nothing.
C7_RankError ==
    /\ (readOut.status # "none" /\ {"SCI", "ERR", "DQ"} \subseteq DOMAIN fitsIn.ext) =>
          IF Ndim(ObsData) \in {2, 3}
          THEN readOut.status = "ok"
          ELSE readOut = [status |-> DimError]
    /\ (redOut.status # "none" /\ RedData # None) =>
          IF Ndim(RedData) \in {2, 3}
          THEN redOut.status = "ok"
          ELSE redOut = [status |-> DimError]

\* both readers failed on a file whose data array has rank 4
C7_Witness ==
    /\ ObsData # None
    /\ Ndim(ObsData) = 4
    /\ readOut = [status |-> DimError]
    /\ redOut = [status |-> DimError]

(***************************************************************************)
(* lookup_pixscale behind functools.lru_cache().                           *)
(***************************************************************************)
\* functools.lru_cache() is used with its default maxsize
MaxSize == 128
MaxFill == 128
MaxHot == 2
MaxReq == 2

LowerCase == <<"a", "b", "c", "d", "e", "f", "g", "h", "i", "j", "k", "l", "m",
               "n", "o", "p", "q", "r", "s", "t", "u", "v", "w", "x", "y", "z">>
UpperCase == <<"A", "B", "C", "D", "E", "F", "G", "H", "I", "J", "K", "L", "M",
               "N", "O", "P", "Q", "R", "S", "T", "U", "V", "W", "X", "Y", "Z">>

UpperChar(c) ==
    IF \E i \in 1..Len(LowerCase) : LowerCase[i] = c
    THEN UpperCase[CHOOSE i \in 1..Len(LowerCase) : LowerCase[i] = c]
    ELSE c

\* str.upper()
Upper(s) == [i \in 1..Len(s) |-> UpperChar(s[i])]

\* a detector name used as it is written
AsWritten(s) == s

\* the detector name as the if/elif chain compares it
DetectorKey(detector) == Upper(detector)

NRCALONG == <<"N", "R", "C", "A", "L", "O", "N", "G">>
NRCA2 == <<"N", "R", "C", "A", "2">>
NRCA4 == <<"N", "R", "C", "A", "4">>
NIRISS == <<"N", "I", "R", "I", "S", "S">>

\* the aperture name the if/elif chain picks for a detector
ApertureFor(detector) ==
    IF DetectorKey(detector) = NRCALONG THEN "NRCA5_MASK430R"
    ELSE IF DetectorKey(detector) = NRCA2 THEN "NRCA2_MASK210R"
    ELSE IF DetectorKey(detector) = NRCA4 THEN "NRCA4_MASKSWB"
    ELSE IF DetectorKey(detector) = NIRISS THEN "NIS_AMI1"
    ELSE "MIRIM_MASK1065"

\* pysiaf.Siaf(instrument).apertures: each instrument's SIAF holds the
\* apertures of that instrument only
SiafApertures(instrument) ==
    CASE instrument = "NIRCam" ->
             {"NRCA5_MASK430R", "NRCA2_MASK210R", "NRCA4_MASKSWB"}
      [] instrument = "NIRISS" -> {"NIS_AMI1"}
      [] instrument = "MIRI" -> {"MIRIM_MASK1065"}

\* siaf.apertures[name].XSciScale
XSciScale(instrument, name) == <<"XSciScale", instrument, name>>

\* the body of lookup_pixscale
LookupBody(instrument, detector) ==
    LET name == ApertureFor(detector)
    IN IF name \in SiafApertures(instrument)
       THEN [status |-> "ok", value |-> XSciScale(instrument, name)]
       ELSE [status |-> "KeyError"]

Instruments == {"NIRCam", "NIRISS", "MIRI"}
NamedDetectors ==
    { NRCALONG, <<"n", "r", "c", "a", "l", "o", "n", "g">>,
      <<"N", "r", "c", "A", "2">>, NRCA4, NIRISS, <<"n", "i", "r", "i", "s", "s">>,
      <<"N", "R", "C", "B", "1">>, <<"M", "I", "R", "I", "M", "A", "G", "E">> }
NamedPairs == Instruments \X NamedDetectors
HotPairs == { <<"NIRCam", NRCALONG>> }

\* distinct pairs that only fill the cache
Digit(n) == <<"0", "1", "2", "3", "4", "5", "6", "7", "8", "9">>[n + 1]
Filler(n) ==
    <<"MIRI", <<"d", Digit(n \div 100), Digit((n \div 10) % 10), Digit(n % 10)>> >>

CacheIndex(pair) ==
    IF \E i \in 1..Len(cache) : cache[i][1] = pair
    THEN CHOOSE i \in 1..Len(cache) : cache[i][1] = pair
    ELSE 0

Without(seq, i) == SubSeq(seq, 1, i - 1) \o SubSeq(seq, i + 1, Len(seq))
Bump(f, pair) == IF pair \in DOMAIN f THEN [f EXCEPT ![pair] = @ + 1] ELSE f

\* a cache that is never full
NeverFull(c) == FALSE

\* the cache holds maxsize results: the next new result evicts the oldest
Full(c) == Len(c) >= MaxSize

\* one call lookup_pixscale(instrument, detector) through the lru_cache
\* wrapper: a hit returns the cached value and makes it the most recent; a
\* miss runs the body, and a returned value is cached (an exception is not)
LookupPixscale(pair) ==
    LET i == CacheIndex(pair)
    IN IF i > 0
       THEN /\ cache' = <<cache[i]>> \o Without(cache, i)
            /\ lastCall' = [status |-> "ok", pair |-> pair, value |-> cache[i][2],
                            hit |-> TRUE]
            /\ UNCHANGED <<nLookups, nEvicted, firstValue>>
       ELSE LET r == LookupBody(pair[1], pair[2])
            IN /\ nLookups' = Bump(nLookups, pair)
               /\ IF r.status = "ok"
                  THEN /\ cache' = <<<<pair, r.value>>>> \o
                                     (IF Full(cache)
                                      THEN SubSeq(cache, 1, Len(cache) - 1)
                                      ELSE cache)
                       /\ nEvicted' = IF Full(cache)
                                      THEN Bump(nEvicted, cache[Len(cache)][1])
                                      ELSE nEvicted
                       /\ firstValue' =
                             IF pair \in DOMAIN firstValue /\ firstValue[pair] = None
                             THEN [firstValue EXCEPT ![pair] = r.value]
                             ELSE firstValue
                       /\ lastCall' = [status |-> "ok", pair |-> pair,
                                       value |-> r.value, hit |-> FALSE]
                  ELSE /\ lastCall' = [status |-> r.status, pair |-> pair,
                                       value |-> None, hit |-> FALSE]
                       /\ UNCHANGED <<cache, nEvicted, firstValue>>

\* a call with one of the named pairs
CallNamed ==
    /\ nReq < MaxReq
    /\ \E pair \in NamedPairs : LookupPixscale(pair)
    /\ nReq' = nReq + 1
    /\ UNCHANGED nFill
    /\ UNCHANGED <<runVars, ioVars, magVars, procVars>>

\* a call with the pair that is asked for again and again
CallHot ==
    /\ nReq < MaxHot
    /\ \E pair \in HotPairs : LookupPixscale(pair)
    /\ nReq' = nReq + 1
    /\ UNCHANGED nFill
    /\ UNCHANGED <<runVars, ioVars, magVars, procVars>>

\* a call with a pair never asked for before
CallFiller ==
    /\ nFill < MaxFill
    /\ LookupPixscale(Filler(nFill + 1))
    /\ nFill' = nFill + 1
    /\ UNCHANGED nReq
    /\ UNCHANGED <<runVars, ioVars, magVars, procVars>>

PixInit ==
    /\ cache = <<>>
    /\ nLookups = [pair \in NamedPairs |-> 0]
    /\ nEvicted = [pair \in NamedPairs |-> 0]
    /\ firstValue = [pair \in NamedPairs |-> None]
    /\ lastCall = [status |-> "none", pair |-> None, value |-> None, hit |-> FALSE]
    /\ nFill = 0
    /\ nReq = 0

SpecPixInit == PixInit /\ RunIdle /\ IoIdle /\ MagIdle /\ ProcIdle
SpecPix == SpecPixInit /\ [][CallNamed]_vars

LruNext ==
    \/ CallHot
    \/ CallFiller

SpecLruInit == PixInit /\ RunIdle /\ IoIdle /\ MagIdle /\ ProcIdle
SpecLru == SpecLruInit /\ [][LruNext]_vars

\* the aperture the stated mapping gives a detector name, compared
\* case-insensitively
StatedAperture(detector) ==
    CASE Upper(detector) = NRCALONG -> "NRCA5_MASK430R"
      [] Upper(detector) = NRCA2 -> "NRCA2_MASK210R"
      [] Upper(detector) = NRCA4 -> "NRCA4_MASKSWB"
      [] Upper(detector) = NIRISS -> "NIS_AMI1"
      [] OTHER -> "MIRIM_MASK1065"

\* C8, as stated: the lookup runs at most once per distinct pair, however
\* many pairs are asked for, and every call that returns gives the value the
\* first call gave.
C8_LookupOncePerPair ==
    /\ \A pair \in NamedPairs : nLookups[pair] <= 1
    /\ (lastCall.status = "ok" /\ lastCall.pair \in NamedPairs) =>
          lastCall.value = firstValue[lastCall.pair]

\* C8, amended: the cache holds at most 128 results; a pair whose lookup
\* returns has its lookup run at most once more than it was evicted, and it
\* is evicted only from a full cache; every call that returns gives the
\* value the first call gave.
C8_LruMemoized ==
    /\ Len(cache) <= MaxSize
    /\ \A pair \in NamedPairs :
          /\ nLookups[pair] <= 1 + nEvicted[pair]
          /\ nEvicted[pair] > 0 => Len(cache) = MaxSize
          /\ (nLookups[pair] > 0 /\ nEvicted[pair] = 0) => CacheIndex(pair) > 0
    /\ (lastCall.status = "ok" /\ lastCall.pair \in NamedPairs) =>
          lastCall.value = firstValue[lastCall.pair]

\* the pair asked for first was evicted by 128 other pairs and, asked for
\* again, was looked up a second time with the same value
C8_Witness ==
    \E pair \in HotPairs :
        /\ nEvicted[pair] = 1
        /\ nLookups[pair] = 2
        /\ lastCall.pair = pair
        /\ lastCall.status = "ok"
        /\ lastCall.value = firstValue[pair]

\* C9, as stated: every call returns the scale of the aperture that the
\* mapping gives the detector, MIRIM_MASK1065 for every unlisted detector,
\* whatever the instrument, and none raises.
C9_FallsThroughWithoutError ==
    lastCall.status # "none" =>
        LET instrument == lastCall.pair[1]
            name == StatedAperture(lastCall.pair[2])
        IN /\ lastCall.status = "ok" => lastCall.value = XSciScale(instrument, name)
           /\ name = "MIRIM_MASK1065" => lastCall.status = "ok"

\* C9, amended: the detector name, compared case-insensitively, picks the
\* aperture name of the mapping (MIRIM_MASK1065 for every unlisted name);
\* the call returns that aperture's scale when the SIAF of the given
\* instrument holds the aperture and raises KeyError when it does not.
C9_MappingThenSiafLookup ==
    lastCall.status # "none" =>
        LET instrument == lastCall.pair[1]
            name == StatedAperture(lastCall.pair[2])
        IN IF name \in SiafApertures(instrument)
           THEN /\ lastCall.status = "ok"
                /\ lastCall.value = XSciScale(instrument, name)
           ELSE lastCall.status = "KeyError"

\* an unlisted detector raised with NIRCam and then, with MIRI, fell through
\* to the MIRI aperture
C9_Witness ==
    /\ nLookups[<<"NIRCam", <<"N", "R", "C", "B", "1">> >>] = 1
    /\ firstValue[<<"NIRCam", <<"N", "R", "C", "B", "1">> >>] = None
    /\ lastCall.pair = <<"MIRI", <<"N", "R", "C", "B", "1">> >>
    /\ lastCall.status = "ok"
    /\ lastCall.value = XSciScale("MIRI", "MIRIM_MASK1065")

(***************************************************************************)
(* get_stellar_magnitudes: the per-filter loop over the filter list of the *)
(* filter-profile service and the local passband files.                    *)
(***************************************************************************)
MaxFilters == 3

Txt == <<".", "t", "x", "t">>
F444W == <<"F", "4", "4", "4", "W">>

\* filter_list['filterID'][i].split('.')[-1]
RECURSIVE SplitDotLast(_)
SplitDotLast(id) ==
    IF id = <<>> THEN <<>>
    ELSE IF id[Len(id)] = "." THEN <<>>
    ELSE SplitDotLast(SubSeq(id, 1, Len(id) - 1)) \o <<id[Len(id)]>>

\* the rows SvoFps.get_filter_list may hold
FilterIDs ==
    { <<"J", ".">> \o F444W,
      <<"J", ".", "f", "4", "4", "4", "w">>,
      <<"J", ".", "N", ".", "F", "2">>,
      <<"f", "2">> }
FilterRow(id) == [filterID |-> id, ZeroPoint |-> <<"ZeroPoint", id>>]

\* filter lists of up to MaxFilters rows, no filterID twice
FilterLists ==
    { [i \in 1..Len(ids) |-> FilterRow(ids[i])] :
        ids \in { q \in UNION { [1..m -> FilterIDs] : m \in 0..MaxFilters } :
                    \A a, b \in 1..Len(q) : a # b => q[a] # q[b] } }

\* the files a package spaceKLIP.resources.PCEs.<instrume> may hold
PassbandFiles ==
    { F444W \o Txt, <<"f", "4", "4", "4", "w">> \o Txt, <<"F", "2">> \o Txt }

\* zero_points_si
ZeroPointsSI ==
    { << <<"F", "1", "8", "2", "M">>, "7.44007e-11" >>,
      << <<"F", "2", "1", "0", "M">>, "4.69758e-11" >>,
      << <<"F", "2", "5", "0", "M">>, "2.41440e-11" >>,
      << <<"F", "3", "0", "0", "M">>, "1.24029e-11" >>,
      << <<"F", "3", "3", "5", "M">>, "7.92772e-12" >>,
      << <<"F", "3", "5", "6", "W">>, "6.38971e-12" >>,
      << F444W, "2.84527e-12" >> }
ZeroPointSI(key) ==
    IF \E t \in ZeroPointsSI : t[1] = key
    THEN (CHOOSE t \in ZeroPointsSI : t[1] = key)[2]
    ELSE "nan"

\* d[k] = v on a dictionary
DictSet(d, k, v) == [x \in DOMAIN d \cup {k} |-> IF x = k THEN v ELSE d[x]]
EmptyDict == [x \in {} |-> None]

\* a loop that never misses a passband file
OpensAnyway(filt, pkgFiles) == TRUE

\* open_text(..., f'{filt}.txt') finds the file
OpensPassband(filt, pkgFiles) == (filt \o Txt) \in pkgFiles

\* the dictionary key of a filter
FilterKey(filt) == Upper(filt)

\* the loop 'for i, filt in enumerate(filts)' from index i on
RECURSIVE MagLoop(_, _, _, _, _)
MagLoop(filts, zeros, i, pkgFiles, acc) ==
    IF i > Len(filts) THEN acc
    ELSE IF ~OpensPassband(filts[i], pkgFiles)
         THEN MagLoop(filts, zeros, i + 1, pkgFiles, acc)
         ELSE MagLoop(filts, zeros, i + 1, pkgFiles,
                      [mstar |-> DictSet(acc.mstar, FilterKey(filts[i]),
                                         <<"vegamag", filts[i]>>),
                       fzero |-> DictSet(acc.fzero, FilterKey(filts[i]), zeros[i]),
                       fzero_si |-> DictSet(acc.fzero_si, FilterKey(filts[i]),
                                            ZeroPointSI(FilterKey(filts[i])))])

\* get_stellar_magnitudes from the filter list on: filts and zeros are built,
\* the loop fills the dictionaries, return_si selects what is returned
StellarMagnitudes(filter_list, pkgFiles, return_si) ==
    LET filts == [i \in 1..Len(filter_list) |-> SplitDotLast(filter_list[i].filterID)]
        zeros == [i \in 1..Len(filter_list) |-> filter_list[i].ZeroPoint]
        out == MagLoop(filts, zeros, 1, pkgFiles,
                       [mstar |-> EmptyDict, fzero |-> EmptyDict,
                        fzero_si |-> EmptyDict])
    IN [status |-> "ok", return_si |-> return_si, mstar |-> out.mstar,
        fzero |-> out.fzero,
        fzero_si |-> IF return_si THEN out.fzero_si ELSE None]

GetStellarMagnitudes ==
    /\ magOut.status = "none"
    /\ \E return_si \in BOOLEAN :
          magOut' = StellarMagnitudes(svo, passbands, return_si)
    /\ UNCHANGED <<svo, passbands>>
    /\ UNCHANGED <<runVars, ioVars, pixVars, procVars>>

MagInit ==
    /\ svo \in FilterLists
    /\ passbands \in SUBSET PassbandFiles
    /\ magOut = [status |-> "none"]

SpecMagInit == MagInit /\ RunIdle /\ IoIdle /\ PixIdle /\ ProcIdle
SpecMag == SpecMagInit /\ [][GetStellarMagnitudes]_vars

\* the filter names the service reports, and those with a local passband file
ReportedNames == { SplitDotLast(svo[i].filterID) : i \in 1..Len(svo) }
LocalNames == { SubSeq(f, 1, Len(f) - Len(Txt)) : f \in passbands }
ReturnedKeySetsAgree ==
    /\ DOMAIN magOut.fzero = DOMAIN magOut.mstar
    /\ magOut.return_si => DOMAIN magOut.fzero_si = DOMAIN magOut.mstar

\* C10, as stated: the returned dictionaries have one key set, and it is the
\* intersection of the reported filter names and the names with a local
\* passband file.
C10_KeysAreIntersection ==
    magOut.status = "ok" =>
        /\ ReturnedKeySetsAgree
        /\ DOMAIN magOut.mstar = ReportedNames \cap LocalNames

\* C10, amended: the returned dictionaries have one key set, and it is the
\* set of the upper-cased names of the filters in that intersection.
C10_KeysAreUpperOfIntersection ==
    magOut.status = "ok" =>
        /\ ReturnedKeySetsAgree
        /\ DOMAIN magOut.mstar = { Upper(n) : n \in ReportedNames \cap LocalNames }

\* three filters were reported, one has no local file and is in no
\* dictionary, the SI dictionary was asked for
C10_Witness ==
    /\ magOut.status = "ok"
    /\ magOut.return_si
    /\ Len(svo) = 3
    /\ ReportedNames \ LocalNames # {}
    /\ DOMAIN magOut.mstar # {}
    /\ DOMAIN magOut.fzero_si = DOMAIN magOut.mstar

(***************************************************************************)
(* Properties of Coron2Pipeline_spaceKLIP.process.                         *)
(***************************************************************************)
SpecProcInit == ProcInit /\ RunIdle /\ IoIdle /\ PixIdle /\ MagIdle
SpecProc == SpecProcInit /\ [][ProcNext]_vars

\* C11: every result in all_res had its output filename built with suffix
\* 'calints' when it is a cube (3D) and with suffix 'cal' when it is a 2D
\* image; no other suffix is passed, and the filename ends with an underscore,
\* that suffix and the extension.
C11_SuffixByShape ==
    \A n \in 1..Len(all_res) :
        LET r == all_res[n]
        IN /\ r.ndim \in {2, 3}
           /\ r.ndim = 3 =>
                 /\ r.suffix = Calints
                 /\ EndsWith(r.filename, <<"_">> \o Calints \o DotFits)
           /\ r.ndim = 2 =>
                 /\ r.suffix = Cal
                 /\ EndsWith(r.filename, <<"_">> \o Cal \o DotFits)
                 /\ ~EndsWith(r.filename, <<"_">> \o Calints \o DotFits)

\* a second process call on the same instance, whose own suffix is by then
\* False, has returned a cube and an image for a two-product association
C11_Witness ==
    /\ procPhase = "returned"
    /\ nProcess = 2
    /\ self.suffix = PyFalse
    /\ Len(all_res) = 2
    /\ all_res[1].ndim = 3
    /\ all_res[2].ndim = 2
    /\ all_res[1].product # all_res[2].product

====
